---------------------------- MODULE Spec2Model ----------------------------
(***************************************************************************)
(* Model of the recipe service.                                            *)
(*   Spec        the generate_recipe pipeline of app/services/recipe_ai.py  *)
(*               behind POST /generate-recipe/: request validation, the     *)
(*               save_preference call, normalisation, dataset lookup,       *)
(*               external classification, the three gates, synthesis and    *)
(*               parsing.                                                   *)
(*   SpecLookup  normalize_ingredient and get_ingredient_category on their  *)
(*               own, over strings and ingredient files.                    *)
(*   SpecService lifespan of app/main.py and the calls of the three         *)
(*               preference endpoints, running concurrently on the          *)
(*               collection of app/core/db_manager.py.                      *)
(*                                                                         *)
(* Text is a sequence of one-character strings.  A reply of the generation *)
(* service is a sequence of lexical units: characters, and strings that    *)
(* stand for a whole JSON object ("{recipe1}") or a run of prose ("Sure:").*)
(***************************************************************************)
EXTENDS Integers, Sequences, FiniteSets, TLC

\* ------------------------------------------------------------------ bounds
MaxAvail == 3
MaxPref == 1
MaxRequests == 1

\* ------------------------------------------------------------- text helpers
UpperLetters ==
  <<"A","B","C","D","E","F","G","H","I","J","K","L","M",
    "N","O","P","Q","R","S","T","U","V","W","X","Y","Z">>

LowerLetters ==
  <<"a","b","c","d","e","f","g","h","i","j","k","l","m",
    "n","o","p","q","r","s","t","u","v","w","x","y","z">>

\* str.lower() on one character
LowerChar(c) ==
  IF \E k \in 1..Len(UpperLetters) : UpperLetters[k] = c
  THEN LowerLetters[CHOOSE k \in 1..Len(UpperLetters) : UpperLetters[k] = c]
  ELSE c

\* str.upper() on one character
UpperChar(c) ==
  IF \E k \in 1..Len(LowerLetters) : LowerLetters[k] = c
  THEN UpperLetters[CHOOSE k \in 1..Len(LowerLetters) : LowerLetters[k] = c]
  ELSE c

\* str.lower()
Lower(s) == [k \in 1..Len(s) |-> LowerChar(s[k])]

\* str.upper()
Upper(s) == [k \in 1..Len(s) |-> UpperChar(s[k])]

\* str.replace(" ", ""): only the space character is removed
IsNotSpace(c) == c # " "

RemoveSpaces(s) == SelectSeq(s, IsNotSpace)

\* membership in a Python list
InList(x, l) == \E k \in 1..Len(l) : l[k] = x

\* set(list)
ToSet(l) == {l[k] : k \in 1..Len(l)}

\* ---------------------------------------------------------------- the words
W_egg == <<"e","g","g">>
W_eggs == <<"e","g","g","s">>
W_Eggs == <<"E","g","g","s">>
W_salt == <<"s","a","l","t">>
W_tofu == <<"t","o","f","u">>
W_YES == <<"Y","E","S">>
W_yes == <<"y","e","s">>
W_NO == <<"N","O">>
W_None == <<"N","o","n","e">>
W_protein == <<"p","r","o","t","e","i","n">>
W_vegetables == <<"v","e","g","e","t","a","b","l","e","s">>
W_fruits == <<"f","r","u","i","t","s">>
W_carbs == <<"c","a","r","b","s">>
W_dairy == <<"d","a","i","r","y">>

\* ------------------------------------------------------ optional / JSON values
\* A value a Python variable may hold here: None, a string, or a non-empty
\* JSON list (unhashable).  s is the text of a string and <<>> otherwise.
PyNone == [t |-> "none", s |-> <<>>]

PyStr(s) == [t |-> "str", s |-> s]

PyList == [t |-> "list", s |-> <<>>]

PyBool == [t |-> "bool", s |-> <<>>]

Missing == [t |-> "missing", s |-> <<>>]

\* Python truthiness of such a value
Truthy(v) ==
  CASE v.t = "none" -> FALSE
    [] v.t = "str" -> v.s # <<>>
    [] v.t = "list" -> TRUE
    [] v.t = "bool" -> TRUE
    [] OTHER -> FALSE

\* ----------------------------------------------------------------- dataset
\* Rows of app/data/ingredients_table.csv: the file the request pipeline is
\* checked with.
IngredientsTable ==
  << [Ingredient |-> <<"E","g","g">>, Category |-> <<"P","r","o","t","e","i","n">>],
     [Ingredient |-> <<"S","a","l","t">>, Category |-> <<"S","p","i","c","e","s">>] >>

\* Preprocess dataset: both columns lowercased, spaces removed
Preprocess(table) ==
  [k \in 1..Len(table) |->
     [Ingredient |-> RemoveSpaces(Lower(table[k].Ingredient)),
      Category |-> RemoveSpaces(Lower(table[k].Category))]]

\* the module's global data frame: the preprocessed rows of the file
VARIABLE ingredient_df

CORE_CATEGORIES == {W_protein, W_vegetables, W_fruits, W_carbs}

\* WordNetLemmatizer.lemmatize (noun): the base form of a known inflected
\* noun, the word itself otherwise.
lemmatize(w) == IF w = W_eggs THEN W_egg ELSE w

normalize_ingredient(ingredient) == lemmatize(RemoveSpaces(Lower(ingredient)))

\* rows of the frame whose Ingredient equals the query, in frame order
MatchingRows(ingredient) ==
  {k \in 1..Len(ingredient_df) : ingredient_df[k].Ingredient = ingredient}

\* a lookup that never finds a row
get_ingredient_category_miss(ingredient) == PyNone

\* category_row["Category"].values[0] if not category_row.empty else None
get_ingredient_category(ingredient) ==
  IF MatchingRows(ingredient) = {}
  THEN PyNone
  ELSE LET first == CHOOSE k \in MatchingRows(ingredient) :
                      \A j \in MatchingRows(ingredient) : k <= j
       IN PyStr(ingredient_df[first].Category)

\* every valid ingredient counted as a dataset match
InDataset_always(ingredient) == TRUE

\* result["ingredient"] in ingredient_df["Ingredient"].values
InDataset(ingredient) == MatchingRows(ingredient) # {}

\* ------------------------------------------------- the classification service
\* What one call of client.chat.completions.create in call_llm_for_ingredient
\* does: raise (transport, timeout, no content), or return a text that is
\* not JSON, or a text that is the JSON value described by kind:
\*   "json_null"      null
\*   "json_falsy"     {} [] 0 "" false
\*   "json_nonobject" a non-empty list or string, a non-zero number, true
\*   "json_object"    an object with at least one key; valid and category are
\*                    the values of those keys (Missing when the key is absent)
Reply(kind, valid, category) == [kind |-> kind, valid |-> valid, category |-> category]

NoReply == Reply("no_call", Missing, Missing)

ClassifierReplies ==
  { Reply("exception", Missing, Missing),
    Reply("notjson", Missing, Missing),
    Reply("json_null", Missing, Missing),
    Reply("json_falsy", Missing, Missing),
    Reply("json_nonobject", Missing, Missing),
    Reply("json_object", Missing, PyStr(W_protein)),
    Reply("json_object", PyBool, PyStr(W_protein)),
    Reply("json_object", PyStr(W_NO), PyStr(W_None)),
    Reply("json_object", PyStr(W_YES), Missing),
    Reply("json_object", PyStr(W_YES), PyStr(W_None)),
    Reply("json_object", PyStr(W_YES), PyNone),
    Reply("json_object", PyStr(W_YES), PyList),
    Reply("json_object", PyStr(W_YES), PyStr(W_dairy)),
    Reply("json_object", PyStr(W_yes), PyStr(W_protein)) }

\* The value call_llm_for_ingredient returns: json.loads(reply), or None when
\* the call or json.loads raised (the except clause).
call_llm_for_ingredient(reply) ==
  IF reply.kind \in {"exception", "notjson"}
  THEN Reply("json_null", Missing, Missing)
  ELSE reply

\* Python truthiness of the value call_llm_for_ingredient returned
LlmTruthy(llm_result) == llm_result.kind \in {"json_nonobject", "json_object"}

Resolution(status, ingredient, category, called) ==
  [status |-> status, ingredient |-> ingredient, category |-> category, called |-> called]

\* is_valid_ingredient: status "valid" is the returned dict, "none" is None,
\* "raise" an exception leaving the function (TypeError, KeyError,
\* AttributeError); called tells whether call_llm_for_ingredient was invoked.
is_valid_ingredient(ingredient, reply) ==
  LET normalized_ingredient == normalize_ingredient(ingredient)
      category == get_ingredient_category(normalized_ingredient)
      llm_result == call_llm_for_ingredient(reply)
  IN IF Truthy(category)
     THEN Resolution("valid", normalized_ingredient, category, FALSE)
     ELSE IF ~LlmTruthy(llm_result)
     THEN Resolution("none", normalized_ingredient, PyNone, TRUE)
     ELSE IF llm_result.kind = "json_nonobject"
     THEN Resolution("raise", normalized_ingredient, PyNone, TRUE)
     ELSE IF llm_result.valid.t # "str"
     THEN Resolution("raise", normalized_ingredient, PyNone, TRUE)
     ELSE IF Upper(llm_result.valid.s) # W_YES
     THEN Resolution("none", normalized_ingredient, PyNone, TRUE)
     ELSE IF llm_result.category.t = "missing"
     THEN Resolution("raise", normalized_ingredient, PyNone, TRUE)
     ELSE Resolution("valid", normalized_ingredient,
                     IF llm_result.category = PyStr(W_None)
                     THEN PyNone ELSE llm_result.category,
                     TRUE)

\* ----------------------------------------------------------------- requests
Users == {"u1", "u2"}

\* the ingredient strings of the bodies: a plural in two spellings that
\* differ in case only, a dataset ingredient, one the dataset does not have
RawTokens == {W_eggs, W_Eggs, W_salt, W_tofu}

SeqUpTo(S, n) == UNION {[1..k -> S] : k \in 0..n}

\* What stands in place of a list of strings: the field is absent from the
\* JSON body, the field is JSON null, the Python value None.  Each differs
\* from every list of ingredient strings.
Omitted == << <<"<omitted>">> >>

JsonNull == << <<"<null>">> >>

NoneValue == << <<"<None>">> >>

\* the comparison without lowercasing either side
validate_ingredients_case_sensitive(ingredients, available) ==
  \A k \in 1..Len(ingredients) : InList(ingredients[k], available)

\* RecipeRequest.validate_ingredients returns (TRUE) or raises ValueError
\* (FALSE): every entry, lowercased, is among the lowercased available
\* ingredients
validate_ingredients(ingredients, available) ==
  \A k \in 1..Len(ingredients) :
     InList(Lower(ingredients[k]), [j \in 1..Len(available) |-> Lower(available[j])])

\* the positions whose entry the loop of validate_ingredients raises for
Offending(ingredients, available) ==
  {k \in 1..Len(ingredients) : ~validate_ingredients(<<ingredients[k]>>, available)}

\* the value the ValueError of validate_ingredients names: the first entry of
\* the list that is not among the available ones
FirstOffending(ingredients, available) ==
  ingredients[CHOOSE k \in Offending(ingredients, available) :
                \A j \in Offending(ingredients, available) : k <= j]

\* One of the fields liked_ingredients / excluded_ingredients of the model:
\*   - absent from the body: the default None is taken and no validator runs;
\*   - present: the mode="before" validators run on the raw value, the one
\*     defined last (validate_ingredients) first, then default_empty_list;
\*     None is not a list, so validate_ingredients raises for it.
\* status "ok" with the field's value, or "error" with the values named.
FieldResult(status, value, named) == [status |-> status, value |-> value, named |-> named]

ValidateField(raw, available) ==
  IF raw = Omitted
  THEN FieldResult("ok", NoneValue, {})
  ELSE IF raw = JsonNull
  THEN FieldResult("error", NoneValue, {})
  ELSE IF validate_ingredients(raw, available)
  THEN FieldResult("ok", raw, {})
  ELSE FieldResult("error", raw, {FirstOffending(raw, available)})

\* the JSON bodies of POST /generate-recipe/ (user_id and available_ingredients
\* well-typed)
PrefValues == SeqUpTo(RawTokens, MaxPref) \cup {Omitted, JsonNull}

Payloads ==
  [user_id : Users,
   available_ingredients : SeqUpTo(RawTokens, MaxAvail),
   liked_ingredients : PrefValues,
   excluded_ingredients : PrefValues]

NoRequest ==
  [user_id |-> "", available_ingredients |-> <<>>,
   liked_ingredients |-> <<>>, excluded_ingredients |-> <<>>]

\* RecipeRequest(**body): the model built from a body, or the validation
\* error with the values its messages name (the errors of both fields are
\* collected)
RecipeRequest(body) ==
  LET liked == ValidateField(body.liked_ingredients, body.available_ingredients)
      excluded == ValidateField(body.excluded_ingredients, body.available_ingredients)
  IN IF liked.status = "ok" /\ excluded.status = "ok"
     THEN [status |-> "ok",
           request |-> [user_id |-> body.user_id,
                        available_ingredients |-> body.available_ingredients,
                        liked_ingredients |-> liked.value,
                        excluded_ingredients |-> excluded.value],
           named |-> {}]
     ELSE [status |-> "error", request |-> NoRequest,
           named |-> liked.named \cup excluded.named]

\* ------------------------------------------------------ the preference store
Doc(user_id, liked, excluded) ==
  [user_id |-> user_id, liked_ingredients |-> liked, excluded_ingredients |-> excluded]

NoDoc == Doc("", <<>>, <<>>)

\* What the collection may hold when the service starts: nothing, or a
\* document an earlier run stored.
InitialCollections == { <<>>, <<Doc("u1", <<W_salt>>, <<>>)>> }

DocsOf(coll, user_id) == {k \in 1..Len(coll) : coll[k].user_id = user_id}

FirstOf(coll, user_id) ==
  CHOOSE k \in DocsOf(coll, user_id) : \A j \in DocsOf(coll, user_id) : k <= j

\* preferences_collection.find_one({"user_id": user_id})
find_one(coll, user_id) ==
  IF DocsOf(coll, user_id) = {} THEN NoDoc ELSE coll[FirstOf(coll, user_id)]

\* preferences_collection.update_one({"user_id": user_id}, {"$set": ...})
update_one(coll, user_id, liked, excluded) ==
  IF DocsOf(coll, user_id) = {}
  THEN coll
  ELSE [coll EXCEPT ![FirstOf(coll, user_id)] = Doc(user_id, liked, excluded)]

\* preferences_collection.insert_one({...})
insert_one(coll, user_id, liked, excluded) ==
  Append(coll, Doc(user_id, liked, excluded))

\* ------------------------------------------------------ the generation reply
Whitespace == {" ", "\n"}

\* the backtick character, which a TLA+ string cannot hold
BQ == "<backtick>"

\* the characters of the argument of strip("```json") and of strip("```")
FenceJsonChars == {BQ, "j", "s", "o", "n"}

FenceChars == {BQ}

RECURSIVE LStrip(_, _)
LStrip(s, chars) ==
  IF s # <<>> /\ Head(s) \in chars THEN LStrip(Tail(s), chars) ELSE s

RECURSIVE RStrip(_, _)
RStrip(s, chars) ==
  IF s # <<>> /\ s[Len(s)] \in chars
  THEN RStrip(SubSeq(s, 1, Len(s) - 1), chars)
  ELSE s

\* str.strip(chars): leading and trailing characters of the set are removed
StripChars(s, chars) == RStrip(LStrip(s, chars), chars)

\* str.strip()
Strip(s) == StripChars(s, Whitespace)

\* The keys of the JSON object a unit stands for
RequiredFields ==
  {"title", "ingredients", "instructions", "estimated_cooking_time", "difficulty_level"}

ObjectUnits == {"{recipe1}", "{recipe2}", "{no_title}", "{}"}

Fields(unit) ==
  CASE unit = "{recipe1}" -> RequiredFields
    [] unit = "{recipe2}" -> RequiredFields
    [] unit = "{no_title}" -> RequiredFields \ {"title"}
    [] OTHER -> {}

IsNotWhitespace(c) == c \notin Whitespace

\* json.loads: kind "error" when it raises, "dict" for a JSON object, "list"
\* for a JSON list of objects (items: the units of its entries)
Parsed(kind, items) == [kind |-> kind, items |-> items]

json_loads(text) ==
  LET tok == SelectSeq(text, IsNotWhitespace)
      n == Len(tok)
  IN IF n = 1 /\ tok[1] \in ObjectUnits
     THEN Parsed("dict", tok)
     ELSE IF n >= 2 /\ tok[1] = "[" /\ tok[n] = "]"
     THEN IF n = 2
          THEN Parsed("list", <<>>)
          ELSE IF /\ n % 2 = 1
                  /\ \A k \in 2..(n - 1) :
                       IF k % 2 = 0 THEN tok[k] \in ObjectUnits ELSE tok[k] = ","
               THEN Parsed("list", [k \in 1..((n - 1) \div 2) |-> tok[2 * k]])
               ELSE Parsed("error", <<>>)
     ELSE Parsed("error", <<>>)

\* What client.chat.completions.create returns as message content in
\* generate_recipe; SynthesisFailure stands for the call raising.
SynthesisFailure == <<"<exception>">>

SynthReplies ==
  { <<"[", "{recipe1}", "]">>,
    <<BQ, BQ, BQ, "j", "s", "o", "n", "\n",
      "[", "{recipe1}", ",", "{recipe2}", "]", "\n", BQ, BQ, BQ>>,
    <<"\n", "[", "{recipe2}", ",", "{recipe1}", "]", " ">>,
    <<"[", "{recipe1}", ",", "{no_title}", "]">>,
    <<"Sure:", " ", "[", "{recipe1}", "]">>,
    <<"[", "]">>,
    <<"{}">>,
    <<"{recipe1}">> }

DebugInfo(db, llm, raw) ==
  [matched_with_database |-> db, matched_via_llm |-> llm, raw_llm_response |-> raw]

\* RecipeResponseWithDebug(**recipe, debug_info=...): TRUE when the model
\* validates (every required field present, no second debug_info argument)
RecipeValidates(unit) ==
  RequiredFields \subseteq Fields(unit) /\ "debug_info" \notin Fields(unit)

RecipeResponseWithDebug(unit, debug) ==
  [recipe |-> unit, fields |-> RequiredFields \cup {"debug_info"}, debug_info |-> debug]

Outcome(status, error, names, recipes) ==
  [status |-> status, error |-> error, names |-> names, recipes |-> recipes]

Pending == Outcome("pending", "", {}, <<>>)

\* The result of lines 214-224 on the stripped reply text: the comprehension
\* over recipes_data returns the list, or an exception leaves it.
build_response(response_text, db, llm) ==
  LET recipes_data == json_loads(StripChars(StripChars(response_text, FenceJsonChars), FenceChars))
      debug == DebugInfo(db, llm, response_text)
  IN CASE recipes_data.kind = "error" -> Outcome("error", "parse", {}, <<>>)
       [] recipes_data.kind = "dict" ->
            \* iterating a dict yields its keys: none for {}, strings otherwise
            IF Fields(recipes_data.items[1]) = {}
            THEN Outcome("ok", "", {}, <<>>)
            ELSE Outcome("error", "entry", {}, <<>>)
       [] OTHER ->
            IF \A k \in 1..Len(recipes_data.items) : RecipeValidates(recipes_data.items[k])
            THEN Outcome("ok", "", {},
                         [k \in 1..Len(recipes_data.items) |->
                            RecipeResponseWithDebug(recipes_data.items[k], debug)])
            ELSE Outcome("error", "entry", {}, <<>>)

\* ------------------------------------------------------------------- state
VARIABLES
  collection,             \* preferences_collection: the stored documents
  pc,                     \* where the request handler stands
  served,                 \* requests completed so far
  payload,                \* the JSON body of the request being handled
  received,               \* the request as it arrived (after validation)
  request,                \* the request object generate_recipe works on
  existing_preference,    \* save_preference's local
  idx,                    \* position of the resolution loop in available_ingredients
  result,                 \* the loop's result of is_valid_ingredient
  llm_reply,              \* what the classification service did in the last loop step
  valid_ingredients,
  matched_with_database,
  matched_via_llm,
  ingredient_categories,
  resolved,               \* the truthy results of the loop so far, in order
  content,                \* message content of the generation reply
  response_text,
  outcome,                \* what generate_recipe returned or raised
  log,                    \* external calls and gates passed, in order
  csv,                    \* what pd.read_csv(DATASET_PATH) returned at load time
  raw,                    \* strings normalize_ingredient was applied to
  canonical,              \* what it returned for each of them
  looked_up,              \* dataset names looked up, with the lookup's result
  lifespan_pc,            \* where lifespan stands: "ping", "sleep", "serving", "failed"
  retries,                \* lifespan's local
  ping_results,           \* the outcome of each ping lifespan made, in order
  handlers,               \* the running calls of the three preference endpoints
  expected,               \* per user, the lists last saved and not deleted since
  overlapped,             \* two endpoint calls have been in progress at once
  ops                     \* endpoint calls started so far

\* the variables of the request pipeline
pipeline ==
  <<pc, served, payload, received, request, existing_preference, idx, result,
    llm_reply, valid_ingredients, matched_with_database, matched_via_llm,
    ingredient_categories, resolved, content, response_text, outcome, log>>

dataset == <<csv, ingredient_df>>

lookup == <<raw, canonical, looked_up>>

service == <<lifespan_pc, retries, ping_results, handlers, expected, overlapped, ops>>

\* the variables the request pipeline never writes
others == <<dataset, lookup, service>>

vars == <<collection, pipeline, others>>

locals ==
  <<idx, result, llm_reply, valid_ingredients, matched_with_database,
    matched_via_llm, ingredient_categories, resolved>>

Event(ev, arg) == [ev |-> ev, arg |-> arg]

NoResult == Resolution("unset", <<>>, PyNone, FALSE)

\* no request is being handled
InitPipeline ==
  /\ pc = "idle"
  /\ served = 0
  /\ payload = NoRequest
  /\ received = NoRequest
  /\ request = NoRequest
  /\ existing_preference = NoDoc
  /\ idx = 0
  /\ result = NoResult
  /\ llm_reply = NoReply
  /\ valid_ingredients = <<>>
  /\ matched_with_database = <<>>
  /\ matched_via_llm = <<>>
  /\ ingredient_categories = {}
  /\ resolved = <<>>
  /\ content = <<>>
  /\ response_text = <<>>
  /\ outcome = Pending
  /\ log = <<>>

\* normalize_ingredient and get_ingredient_category have not been exercised
InitLookup ==
  /\ raw = <<>>
  /\ canonical = <<>>
  /\ looked_up = <<>>

\* the calls of the preference endpoints that may run at the same time
Handlers == {"h1", "h2"}

\* One call of an endpoint: its arguments, where it stands, the local
\* existing_preference of save_preference / delete_preference, what the
\* db_manager function returned, the HTTP status answered (0: none yet), and
\* what the user's saved lists were when the store was read.
Handler(op, user_id, liked, excluded, at, existing, returned, status, expect) ==
  [op |-> op, user_id |-> user_id, liked_ingredients |-> liked,
   excluded_ingredients |-> excluded, pc |-> at, existing_preference |-> existing,
   returned |-> returned, status |-> status, expect |-> expect]

\* what a db_manager function returned: nothing yet, a document or None
\* (get_preference), a message (delete_preference), None (save_preference),
\* or an exception
Returned(kind, doc) == [kind |-> kind, doc |-> doc]

NotReturned == Returned("pending", NoDoc)

IdleHandler == Handler("none", "", <<>>, <<>>, "idle", NoDoc, NotReturned, 0, NoDoc)

\* the application has started and no endpoint call is in progress
InitServing ==
  /\ lifespan_pc = "serving"
  /\ retries = 3
  /\ ping_results = <<TRUE>>
  /\ handlers = [h \in Handlers |-> IdleHandler]
  /\ expected = [u \in Users |-> find_one(collection, u)]
  /\ overlapped = FALSE
  /\ ops = 0

Init ==
  /\ collection \in InitialCollections
  /\ InitPipeline
  /\ csv = IngredientsTable
  /\ ingredient_df = Preprocess(csv)
  /\ InitLookup
  /\ InitServing

\* generate_recipe's except clause: the error is logged and raised again
Raise(error, names) ==
  /\ pc' = "done"
  /\ outcome' = Outcome("error", error, names, <<>>)

\* POST /generate-recipe/: the body is validated into a RecipeRequest; a
\* validation error is answered without the endpoint function being called
Receive(body) ==
  /\ payload' = body
  /\ IF RecipeRequest(body).status = "ok"
     THEN /\ pc' = "ping"
          /\ received' = RecipeRequest(body).request
          /\ request' = RecipeRequest(body).request
          /\ UNCHANGED outcome
     ELSE /\ pc' = "done"
          /\ outcome' = Outcome("error", "validation", RecipeRequest(body).named, <<>>)
          /\ UNCHANGED <<received, request>>
  /\ UNCHANGED <<collection, served, existing_preference, locals, content,
                 response_text, log>>
  /\ UNCHANGED others

\* await db.command("ping")
Ping(ok) ==
  /\ log' = Append(log, Event("ping", <<>>))
  /\ IF ok THEN pc' = "save_find" /\ UNCHANGED outcome ELSE Raise("db", {})
  /\ UNCHANGED <<collection, served, payload, received, request, existing_preference,
                 locals, content, response_text>>
  /\ UNCHANGED others

\* save_preference: existing_preference = await find_one(...)
SaveFind(ok) ==
  /\ log' = Append(log, Event("find_one", <<>>))
  /\ IF ok
     THEN /\ existing_preference' = find_one(collection, request.user_id)
          /\ pc' = "save_write"
          /\ UNCHANGED outcome
     ELSE Raise("db", {}) /\ UNCHANGED existing_preference
  /\ UNCHANGED <<collection, served, payload, received, request, locals, content, response_text>>
  /\ UNCHANGED others

\* the existence test left out: every save inserts a new document
save_write_insert_only(coll, existing, user_id, liked, excluded) ==
  insert_one(coll, user_id, liked, excluded)

\* the collection after save_preference's write
save_write(coll, existing, user_id, liked, excluded) ==
  IF existing # NoDoc
  THEN update_one(coll, user_id, liked, excluded)
  ELSE insert_one(coll, user_id, liked, excluded)

\* save_preference: await update_one(...) or await insert_one(...)
SaveWrite(ok) ==
  /\ log' = Append(log, Event(IF existing_preference # NoDoc
                              THEN "update_one" ELSE "insert_one", <<>>))
  /\ IF ok
     THEN /\ collection' = save_write(collection, existing_preference, request.user_id,
                                      request.liked_ingredients,
                                      request.excluded_ingredients)
          /\ pc' = "normalize"
          /\ UNCHANGED outcome
     ELSE Raise("db", {}) /\ UNCHANGED collection
  /\ UNCHANGED <<served, payload, received, request, existing_preference, locals, content,
                 response_text>>
  /\ UNCHANGED others

NormalizeAll(l) == [k \in 1..Len(l) |-> normalize_ingredient(l[k])]

\* lines 143-145: the three lists are normalized in place, one assignment
\* after the other; iterating None raises TypeError
Normalize ==
  /\ pc = "normalize"
  /\ IF request.liked_ingredients = NoneValue
     THEN /\ request' = [request EXCEPT !.available_ingredients = NormalizeAll(@)]
          /\ Raise("type", {})
     ELSE IF request.excluded_ingredients = NoneValue
     THEN /\ request' = [request EXCEPT
                           !.available_ingredients = NormalizeAll(@),
                           !.liked_ingredients = NormalizeAll(@)]
          /\ Raise("type", {})
     ELSE /\ request' = [request EXCEPT
                           !.available_ingredients = NormalizeAll(@),
                           !.liked_ingredients = NormalizeAll(@),
                           !.excluded_ingredients = NormalizeAll(@)]
          /\ pc' = "conflict_gate"
          /\ UNCHANGED outcome
  /\ UNCHANGED <<collection, served, payload, received, existing_preference, locals,
                 content, response_text, log>>
  /\ UNCHANGED others

\* a wrong set operation: the liked entries that are not excluded
conflicting_ingredients_difference(req) ==
  ToSet(req.liked_ingredients) \ ToSet(req.excluded_ingredients)

conflicting_ingredients(req) ==
  ToSet(req.liked_ingredients) \cap ToSet(req.excluded_ingredients)

\* lines 152-161: the conflict gate, then the loop's accumulators are created
ConflictGate ==
  /\ pc = "conflict_gate"
  /\ IF conflicting_ingredients(request) # {}
     THEN /\ Raise("conflict", conflicting_ingredients(request))
          /\ UNCHANGED <<locals, log>>
     ELSE /\ pc' = "resolve"
          /\ idx' = 1
          /\ valid_ingredients' = <<>>
          /\ matched_with_database' = <<>>
          /\ matched_via_llm' = <<>>
          /\ ingredient_categories' = {}
          /\ resolved' = <<>>
          /\ log' = Append(log, Event("conflict_gate", <<>>))
          /\ UNCHANGED <<result, llm_reply, outcome>>
  /\ UNCHANGED <<collection, served, payload, received, request, existing_preference, content,
                 response_text>>
  /\ UNCHANGED others

NeedsClassifier(ing) == ~Truthy(get_ingredient_category(normalize_ingredient(ing)))

\* ingredient_categories.add(category) raises TypeError for an unhashable value
Unhashable(category) == category.t = "list"

\* one iteration of the loop of lines 163-178
Resolve(reply) ==
  /\ idx <= Len(request.available_ingredients)
  /\ LET ing == request.available_ingredients[idx]
         res == is_valid_ingredient(ing, reply)
     IN /\ reply = NoReply <=> ~NeedsClassifier(ing)
        /\ result' = res
        /\ llm_reply' = reply
        /\ log' = IF res.called THEN Append(log, Event("classify", res.ingredient)) ELSE log
        /\ CASE res.status = "raise" ->
                  /\ Raise("resolution", {})
                  /\ UNCHANGED <<idx, valid_ingredients, matched_with_database,
                                 matched_via_llm, ingredient_categories, resolved>>
             [] res.status = "none" ->
                  /\ idx' = idx + 1
                  /\ UNCHANGED <<pc, outcome, valid_ingredients, matched_with_database,
                                 matched_via_llm, ingredient_categories, resolved>>
             [] OTHER ->
                  IF Truthy(res.category) /\ Unhashable(res.category)
                  THEN /\ Raise("resolution", {})
                       /\ valid_ingredients' = Append(valid_ingredients, res.ingredient)
                       /\ resolved' = Append(resolved, res)
                       /\ UNCHANGED <<idx, matched_with_database, matched_via_llm,
                                      ingredient_categories>>
                  ELSE /\ idx' = idx + 1
                       /\ valid_ingredients' = Append(valid_ingredients, res.ingredient)
                       /\ resolved' = Append(resolved, res)
                       /\ ingredient_categories' =
                            IF Truthy(res.category)
                            THEN ingredient_categories \cup {res.category.s}
                            ELSE ingredient_categories
                       /\ IF InDataset(res.ingredient)
                          THEN /\ matched_with_database' =
                                    Append(matched_with_database, res.ingredient)
                               /\ UNCHANGED matched_via_llm
                          ELSE /\ matched_via_llm' = Append(matched_via_llm, res.ingredient)
                               /\ UNCHANGED matched_with_database
                       /\ UNCHANGED <<pc, outcome>>
  /\ UNCHANGED <<collection, served, payload, received, request, existing_preference, content,
                 response_text>>
  /\ UNCHANGED others

\* an off-by-one threshold
too_few_strict(valid) == Len(valid) <= 3

\* line 185: len(valid_ingredients) < 3
too_few(valid) == Len(valid) < 3

\* the gate asks only for some category, core or not
no_core_empty_only(categories) == categories = {}

\* the coverage check left out
no_core_never(categories) == FALSE

\* line 188: not ingredient_categories.intersection(CORE_CATEGORIES)
no_core(categories) == categories \cap CORE_CATEGORIES = {}

\* line 185, reached when the loop is over
CountGate ==
  /\ pc = "resolve"
  /\ idx > Len(request.available_ingredients)
  /\ IF too_few(valid_ingredients)
     THEN Raise("min_count", {}) /\ UNCHANGED log
     ELSE /\ pc' = "coverage_gate"
          /\ log' = Append(log, Event("count_gate", <<>>))
          /\ UNCHANGED outcome
  /\ UNCHANGED <<collection, served, payload, received, request, existing_preference, locals,
                 content, response_text>>
  /\ UNCHANGED others

\* line 188
CoverageGate ==
  /\ pc = "coverage_gate"
  /\ IF no_core(ingredient_categories)
     THEN Raise("coverage", {}) /\ UNCHANGED log
     ELSE /\ pc' = "synthesize"
          /\ log' = Append(log, Event("coverage_gate", <<>>))
          /\ UNCHANGED outcome
  /\ UNCHANGED <<collection, served, payload, received, request, existing_preference, locals,
                 content, response_text>>
  /\ UNCHANGED others

\* lines 192-224: the generation call, the parse and the returned list
Synthesize(reply) ==
  /\ log' = Append(log, Event("generate", <<>>))
  /\ content' = reply
  /\ pc' = "done"
  /\ IF reply = SynthesisFailure
     THEN /\ outcome' = Outcome("error", "synthesis", {}, <<>>)
          /\ UNCHANGED response_text
     ELSE /\ response_text' = Strip(reply)
          /\ outcome' = build_response(Strip(reply), matched_with_database, matched_via_llm)
  /\ UNCHANGED <<collection, served, payload, received, request, existing_preference, locals>>
  /\ UNCHANGED others

\* the endpoint answers; the request's objects are gone
Finish ==
  /\ pc = "done"
  /\ pc' = "idle"
  /\ served' = served + 1
  /\ payload' = NoRequest
  /\ received' = NoRequest
  /\ request' = NoRequest
  /\ existing_preference' = NoDoc
  /\ idx' = 0
  /\ result' = NoResult
  /\ llm_reply' = NoReply
  /\ valid_ingredients' = <<>>
  /\ matched_with_database' = <<>>
  /\ matched_via_llm' = <<>>
  /\ ingredient_categories' = {}
  /\ resolved' = <<>>
  /\ content' = <<>>
  /\ response_text' = <<>>
  /\ outcome' = Pending
  /\ log' = <<>>
  /\ UNCHANGED collection
  /\ UNCHANGED others

Next ==
  \/ pc = "idle" /\ served < MaxRequests /\ \E body \in Payloads : Receive(body)
  \/ pc = "ping" /\ \E ok \in BOOLEAN : Ping(ok)
  \/ pc = "save_find" /\ \E ok \in BOOLEAN : SaveFind(ok)
  \/ pc = "save_write" /\ \E ok \in BOOLEAN : SaveWrite(ok)
  \/ Normalize
  \/ ConflictGate
  \/ pc = "resolve" /\ \E reply \in ClassifierReplies \cup {NoReply} : Resolve(reply)
  \/ CountGate
  \/ CoverageGate
  \/ pc = "synthesize" /\ \E reply \in SynthReplies \cup {SynthesisFailure} : Synthesize(reply)
  \/ Finish

Spec == Init /\ [][Next]_vars

\* ------------------------------------- normalization and lookup on their own
\* normalize_ingredient applied to strings that differ in case and in
\* whitespace, and get_ingredient_category applied to the names of the file
\* the frame was loaded from.
MaxStrings == 2
MaxRows == 2
MaxLookups == 1

TAB == "\t"

RawStrings ==
  { <<"e","g","g","s">>,
    <<"E","g","g","s">>,
    <<"E","G","G","S">>,
    <<" ","e","g","g","s">>,
    <<"e"," ","g","g","s">>,
    <<"e","g","g","s"," ">>,
    <<"e","g","g","s","\n">>,
    <<"e",TAB,"g","g","s">>,
    <<"s","a","l","t">>,
    <<TAB,"S","a","l","t">> }

\* rows an ingredients file may hold
Row(name, category) == [Ingredient |-> name, Category |-> category]

FileRows ==
  { Row(<<"E","g","g">>, <<"P","r","o","t","e","i","n">>),
    Row(<<"E","g","g","s">>, <<"P","r","o","t","e","i","n">>),
    Row(<<"S","a","l","t">>, <<"S","p","i","c","e","s">>),
    Row(<<"S","e","a"," ","S","a","l","t">>, <<"S","p","i","c","e","s">>) }

Files == UNION {[1..n -> FileRows] : n \in 1..MaxRows}

\* the module is loaded with some ingredients file
InitOnFile ==
  /\ collection = <<>>
  /\ InitPipeline
  /\ csv \in Files
  /\ ingredient_df = Preprocess(csv)
  /\ InitLookup
  /\ InitServing

\* normalize_ingredient(s)
NormalizeString(s) ==
  /\ Len(raw) < MaxStrings
  /\ raw' = Append(raw, s)
  /\ canonical' = Append(canonical, normalize_ingredient(s))
  /\ UNCHANGED <<collection, pipeline, dataset, service, looked_up>>

LookedUp(name, query, category) == [name |-> name, query |-> query, category |-> category]

\* get_ingredient_category(normalize_ingredient(name)) for the name of row k
\* of the file, as is_valid_ingredient does for a raw ingredient
LookupName(k) ==
  /\ Len(looked_up) < MaxLookups
  /\ looked_up' = Append(looked_up,
                         LookedUp(csv[k].Ingredient,
                                  normalize_ingredient(csv[k].Ingredient),
                                  get_ingredient_category(
                                    normalize_ingredient(csv[k].Ingredient))))
  /\ UNCHANGED <<collection, pipeline, dataset, service, raw, canonical>>

NextLookup ==
  \/ \E s \in RawStrings : NormalizeString(s)
  \/ \E k \in 1..Len(csv) : LookupName(k)

SpecLookup == InitOnFile /\ [][NextLookup]_vars

\* ------------------------------------------- startup and the preference endpoints
\* lifespan of main.py, then the endpoints /save-preference/,
\* /get-preference/{user_id} and /delete-preference/{user_id}, each call
\* running in its own task: a call yields at every await, where another
\* call may run.
MaxOps == 3
MaxStartupPings == 5

\* the liked and excluded lists of the bodies of /save-preference/
SavedLists == { <<<<W_Eggs>>, <<>>>>, <<<<>>, <<W_salt>>>> }

InitService ==
  /\ collection \in InitialCollections
  /\ InitPipeline
  /\ csv = IngredientsTable
  /\ ingredient_df = Preprocess(csv)
  /\ InitLookup
  /\ lifespan_pc = "ping"
  /\ retries = 3
  /\ ping_results = <<>>
  /\ handlers = [h \in Handlers |-> IdleHandler]
  /\ expected = [u \in Users |-> find_one(collection, u)]
  /\ overlapped = FALSE
  /\ ops = 0

quiet == <<pipeline, dataset, lookup>>

\* retries is never decremented
retries_after_failure_kept(r) == r

\* retries -= 1
retries_after_failure(r) == r - 1

\* lifespan, lines 38-47: one pass of the loop body up to the sleep: the
\* ping succeeds (break, then yield) or raises (retries decremented, the
\* error raised again when none is left)
LifespanPing(ok) ==
  /\ lifespan_pc = "ping"
  /\ retries > 0
  /\ Len(ping_results) < MaxStartupPings
  /\ ping_results' = Append(ping_results, ok)
  /\ IF ok
     THEN lifespan_pc' = "serving" /\ UNCHANGED retries
     ELSE /\ retries' = retries_after_failure(retries)
          /\ lifespan_pc' = IF retries' = 0 THEN "failed" ELSE "sleep"
  /\ UNCHANGED <<collection, quiet, handlers, expected, overlapped, ops>>

\* lifespan, line 48 and the loop test of line 38 after it
LifespanSleep ==
  /\ lifespan_pc = "sleep"
  /\ lifespan_pc' = IF retries > 0 THEN "ping" ELSE "serving"
  /\ UNCHANGED <<collection, quiet, retries, ping_results, handlers, expected,
                 overlapped, ops>>

InProgress(h) == handlers[h].pc \notin {"idle", "done"}

\* a call of one of the three endpoints arrives; the application serves
\* only after lifespan has yielded
StartRequest(h, op, user_id, liked, excluded) ==
  /\ lifespan_pc = "serving"
  /\ ~InProgress(h)
  /\ ops < MaxOps
  /\ ops' = ops + 1
  /\ handlers' = [handlers EXCEPT ![h] =
                    Handler(op, user_id, liked, excluded, "ping", NoDoc, NotReturned, 0,
                            NoDoc)]
  /\ overlapped' = (overlapped \/ \E g \in Handlers \ {h} : InProgress(g))
  /\ UNCHANGED <<collection, quiet, lifespan_pc, retries, ping_results, expected>>

\* the endpoint's except clause: HTTPException(status_code=500)
Fails(h) == [handlers[h] EXCEPT !.pc = "done", !.status = 500,
                                 !.returned = Returned("raised", NoDoc)]

\* await db.command("ping") in an endpoint; the db_manager function is not
\* called when it raises
EndpointPing(h, ok) ==
  /\ handlers[h].pc = "ping"
  /\ handlers' = [handlers EXCEPT ![h] =
                    IF ok THEN [@ EXCEPT !.pc = "find"]
                    ELSE [@ EXCEPT !.pc = "done", !.status = 500]]
  /\ UNCHANGED <<collection, quiet, lifespan_pc, retries, ping_results, expected,
                 overlapped, ops>>

\* save_preference, line 39
SavePreferenceFind(h, ok) ==
  /\ handlers[h].pc = "find"
  /\ handlers[h].op = "save"
  /\ handlers' = [handlers EXCEPT ![h] =
                    IF ok
                    THEN [@ EXCEPT !.pc = "write",
                                   !.existing_preference = find_one(collection, handlers[h].user_id)]
                    ELSE Fails(h)]
  /\ UNCHANGED <<collection, quiet, lifespan_pc, retries, ping_results, expected,
                 overlapped, ops>>

\* save_preference, lines 41-53, and the endpoint's answer
SavePreferenceWrite(h, ok) ==
  /\ handlers[h].pc = "write"
  /\ IF ok
     THEN /\ collection' = save_write(collection, handlers[h].existing_preference,
                                      handlers[h].user_id,
                                      handlers[h].liked_ingredients,
                                      handlers[h].excluded_ingredients)
          /\ handlers' = [handlers EXCEPT ![h] =
                            [@ EXCEPT !.pc = "done", !.status = 200,
                                      !.returned = Returned("none", NoDoc)]]
          /\ expected' = [expected EXCEPT ![handlers[h].user_id] =
                            Doc(handlers[h].user_id, handlers[h].liked_ingredients,
                                handlers[h].excluded_ingredients)]
     ELSE /\ handlers' = [handlers EXCEPT ![h] = Fails(h)]
          /\ UNCHANGED <<collection, expected>>
  /\ UNCHANGED <<quiet, lifespan_pc, retries, ping_results, overlapped, ops>>

\* get_user_preferences, lines 91-99: HTTPException(404) is raised inside the
\* try block and is an Exception, so the except clause catches it and raises
\* HTTPException(500)
get_user_preferences_status(preferences) == IF preferences # NoDoc THEN 200 ELSE 500

\* get_preference (line 74 and its return) and the endpoint's answer
GetPreference(h, ok) ==
  /\ handlers[h].pc = "find"
  /\ handlers[h].op = "get"
  /\ handlers' = [handlers EXCEPT ![h] =
       IF ok
       THEN [@ EXCEPT !.pc = "done",
                      !.returned = IF find_one(collection, handlers[h].user_id) # NoDoc
                                   THEN Returned("document", find_one(collection, handlers[h].user_id))
                                   ELSE Returned("none", NoDoc),
                      !.status = get_user_preferences_status(find_one(collection, handlers[h].user_id)),
                      !.expect = expected[handlers[h].user_id]]
       ELSE Fails(h)]
  /\ UNCHANGED <<collection, quiet, lifespan_pc, retries, ping_results, expected,
                 overlapped, ops>>

\* delete_user_preferences, lines 114-122: 200 when the message holds
\* "successfully"; otherwise HTTPException(404) is raised inside the try
\* block, caught by the except clause and answered as 500
delete_user_preferences_status(message) == IF message = "deleted" THEN 200 ELSE 500

\* delete_preference, lines 108-112
DeletePreferenceFind(h, ok) ==
  /\ handlers[h].pc = "find"
  /\ handlers[h].op = "delete"
  /\ handlers' = [handlers EXCEPT ![h] =
       IF ~ok
       THEN Fails(h)
       ELSE IF find_one(collection, handlers[h].user_id) = NoDoc
       THEN [@ EXCEPT !.pc = "done",
                      !.returned = Returned("not_found", NoDoc),
                      !.status = delete_user_preferences_status("not_found"),
                      !.expect = expected[handlers[h].user_id]]
       ELSE [@ EXCEPT !.pc = "delete_one",
                      !.existing_preference = find_one(collection, handlers[h].user_id),
                      !.expect = expected[handlers[h].user_id]]]
  /\ UNCHANGED <<collection, quiet, lifespan_pc, retries, ping_results, expected,
                 overlapped, ops>>

\* nothing is removed
delete_one_nothing(coll, user_id) == coll

\* preferences_collection.delete_one({"user_id": user_id}): the first
\* matching document is removed
delete_one(coll, user_id) ==
  IF DocsOf(coll, user_id) = {}
  THEN coll
  ELSE SubSeq(coll, 1, FirstOf(coll, user_id) - 1)
         \o SubSeq(coll, FirstOf(coll, user_id) + 1, Len(coll))

\* delete_preference, lines 114-121, and the endpoint's answer
DeletePreferenceDeleteOne(h, ok) ==
  /\ handlers[h].pc = "delete_one"
  /\ IF ok
     THEN /\ collection' = delete_one(collection, handlers[h].user_id)
          /\ handlers' = [handlers EXCEPT ![h] =
               IF Len(collection') < Len(collection)
               THEN [@ EXCEPT !.pc = "done", !.returned = Returned("deleted", NoDoc),
                              !.status = delete_user_preferences_status("deleted")]
               ELSE [@ EXCEPT !.pc = "done", !.returned = Returned("not_deleted", NoDoc),
                              !.status = delete_user_preferences_status("not_deleted")]]
          /\ expected' = IF Len(collection') < Len(collection)
                         THEN [expected EXCEPT ![handlers[h].user_id] = NoDoc]
                         ELSE expected
     ELSE /\ handlers' = [handlers EXCEPT ![h] = Fails(h)]
          /\ UNCHANGED <<collection, expected>>
  /\ UNCHANGED <<quiet, lifespan_pc, retries, ping_results, overlapped, ops>>

Lifespan == (\E ok \in BOOLEAN : LifespanPing(ok)) \/ LifespanSleep

NextService ==
  \/ \E ok \in BOOLEAN : LifespanPing(ok)
  \/ LifespanSleep
  \/ \E h \in Handlers, u \in Users :
        \/ \E lists \in SavedLists : StartRequest(h, "save", u, lists[1], lists[2])
        \/ \E op \in {"get", "delete"} : StartRequest(h, op, u, <<>>, <<>>)
  \/ \E h \in Handlers, ok \in BOOLEAN : EndpointPing(h, ok)
  \/ \E h \in Handlers, ok \in BOOLEAN : SavePreferenceFind(h, ok)
  \/ \E h \in Handlers, ok \in BOOLEAN : SavePreferenceWrite(h, ok)
  \/ \E h \in Handlers, ok \in BOOLEAN : GetPreference(h, ok)
  \/ \E h \in Handlers, ok \in BOOLEAN : DeletePreferenceFind(h, ok)
  \/ \E h \in Handlers, ok \in BOOLEAN : DeletePreferenceDeleteOne(h, ok)

\* the event loop runs lifespan until it ends: a ping returns or raises, a
\* sleep of 5 seconds ends
SpecService == InitService /\ [][NextService]_vars /\ WF_vars(Lifespan)

\* ------------------------------------------------------------------ claims
HasEvent(ev) == \E k \in 1..Len(log) : log[k].ev = ev

ExternalServiceCalled == HasEvent("classify") \/ HasEvent("generate")

\* the resolution loop ran over every available ingredient
ResolutionComplete == idx >= 1 /\ idx > Len(request.available_ingredients)

\* The failures of a classification call that C1 lists: the call raises, the
\* reply is not JSON, or the parsed value is not an object with a string
\* 'valid' and a 'category'.
IsClassifierFailure(reply) ==
  \/ reply.kind \in {"exception", "notjson", "json_null", "json_falsy", "json_nonobject"}
  \/ /\ reply.kind = "json_object"
     /\ reply.valid.t # "str" \/ reply.category.t = "missing"

\* C1: every failure of the classification call (transport error, reply that
\* is not JSON, parsed reply that is not the expected {valid, category} object)
\* makes is_valid_ingredient return None for that ingredient, and the request
\* is not aborted by it.
C1_ClassifierFailureIsAbsorbed ==
  IsClassifierFailure(llm_reply) =>
    /\ result.status = "none"
    /\ outcome.error # "resolution"

\* the canonical ingredients the liked and the excluded list of the request share
SharedCanonical ==
  IF NoneValue \in {received.liked_ingredients, received.excluded_ingredients}
  THEN {}
  ELSE ToSet(NormalizeAll(received.liked_ingredients))
         \cap ToSet(NormalizeAll(received.excluded_ingredients))

\* C2 as stated: a request whose normalized liked and excluded lists share an
\* ingredient always ends with the conflict error naming the shared
\* ingredients, with no classification and no synthesis call made.
C2_ConflictAlwaysReported ==
  (pc = "done" /\ SharedCanonical # {}) =>
    /\ outcome.status = "error"
    /\ outcome.error = "conflict"
    /\ outcome.names = SharedCanonical
    /\ ~ExternalServiceCalled

\* C2 (amended): a request whose normalized liked and excluded lists share an
\* ingredient never reaches the resolution loop and makes no classification
\* and no synthesis call; unless the database ping or the preference save
\* failed first, it ends with the conflict error naming exactly the shared
\* ingredients (also when fewer than 3 ingredients would be valid).
C2_ConflictRejectedBeforeResolution ==
  SharedCanonical # {} =>
    /\ ~ExternalServiceCalled
    /\ pc \notin {"resolve", "coverage_gate", "synthesize"}
    /\ result = NoResult
    /\ pc = "done" =>
         /\ outcome.status = "error"
         /\ \/ outcome.error = "db"
            \/ outcome.error = "conflict" /\ outcome.names = SharedCanonical

\* C2 witness: a conflict that only normalization reveals, in a request
\* with fewer than 3 available ingredients, rejected with the conflict error.
C2_Witness ==
  /\ pc = "done"
  /\ outcome.error = "conflict"
  /\ received.liked_ingredients # received.excluded_ingredients
  /\ Len(received.available_ingredients) < 3
  /\ outcome.names = {W_egg}

\* C3: once the loop has run over every available ingredient, the request is
\* rejected with the minimum-count error exactly when fewer than 3
\* ingredients resolved; dropped ingredients do not count, and 3 suffice.
C3_MinimumCountGate ==
  /\ (pc = "done" /\ ResolutionComplete) =>
       (outcome.error = "min_count" <=> Len(resolved) < 3)
  /\ pc \in {"coverage_gate", "synthesize"} => Len(resolved) >= 3
  /\ outcome.error = "min_count" => ResolutionComplete
  /\ Len(valid_ingredients) = Len(resolved)

\* C3 witness: exactly 3 ingredients resolved and the request went past the
\* minimum-count gate.
C3_Witness ==
  /\ pc = "done"
  /\ ResolutionComplete
  /\ Len(resolved) = 3
  /\ HasEvent("count_gate")
  /\ outcome.error # "min_count"

\* C3, the other side: 3 ingredients given, one dropped by the classifier,
\* and the request rejected for having 2.
C3_WitnessRejected ==
  /\ pc = "done"
  /\ outcome.error = "min_count"
  /\ Len(request.available_ingredients) = 3
  /\ Len(resolved) = 2

\* the four food groups of the coverage gate
CoreFoodGroups == {W_protein, W_vegetables, W_fruits, W_carbs}

\* some resolved ingredient belongs to one of the four food groups
HasCoreIngredient ==
  \E k \in 1..Len(resolved) :
     resolved[k].category.t = "str" /\ resolved[k].category.s \in CoreFoodGroups

\* C4: for a request past the minimum-count gate: with no resolved ingredient
\* in protein, vegetables, fruits or carbs it is rejected by the coverage gate
\* and the generation service is never called; with at least one, the
\* coverage gate passes.
C4_CoverageGate ==
  HasEvent("count_gate") =>
    /\ ~HasCoreIngredient =>
         /\ ~HasEvent("generate")
         /\ pc # "synthesize"
         /\ pc = "done" => outcome.error = "coverage"
    /\ HasCoreIngredient =>
         /\ outcome.error # "coverage"
         /\ pc \in {"synthesize", "done"} => HasEvent("coverage_gate")

\* C4 witness: three ingredients resolved, one from the dataset with a
\* category outside the four groups, and the request rejected by the
\* coverage gate.
C4_Witness ==
  /\ pc = "done"
  /\ outcome.error = "coverage"
  /\ Len(resolved) = 3
  /\ ingredient_categories # {}
  /\ HasEvent("classify")

\* C4, the other side: a single core ingredient lets the gate pass.
C4_WitnessPass ==
  /\ pc = "synthesize"
  /\ Cardinality({k \in 1..Len(resolved) : resolved[k].category.s \in CoreFoodGroups}) = 1

DatasetKeys == {ingredient_df[k].Ingredient : k \in 1..Len(ingredient_df)}

\* a result for a dataset ingredient: the dataset's category, no classifier call
IsDatasetResult(r) ==
  /\ r.status = "valid"
  /\ ~r.called
  /\ \E k \in 1..Len(ingredient_df) :
        /\ ingredient_df[k].Ingredient = r.ingredient
        /\ r.category = PyStr(ingredient_df[k].Category)

\* C5: an ingredient that is in the dataset resolves to the dataset's
\* category without a call of the classifier; the classifier is called only
\* for ingredients the dataset lookup missed.
C5_DatasetHitSkipsClassifier ==
  /\ \A k \in 1..Len(log) : log[k].ev = "classify" => log[k].arg \notin DatasetKeys
  /\ (result.status # "unset" /\ result.ingredient \in DatasetKeys) =>
       IsDatasetResult(result) /\ llm_reply = NoReply
  /\ (result.status # "unset" /\ result.ingredient \notin DatasetKeys) => result.called
  /\ \A k \in 1..Len(resolved) :
       resolved[k].ingredient \in DatasetKeys => IsDatasetResult(resolved[k])

\* C5 witness: "Eggs" resolved from the dataset as egg/protein, after another
\* ingredient of the same request went to the classifier.
C5_Witness ==
  /\ pc = "resolve"
  /\ idx = 3
  /\ received.available_ingredients[2] = W_Eggs
  /\ result = Resolution("valid", W_egg, PyStr(W_protein), FALSE)
  /\ log[Len(log)] = Event("classify", W_tofu)

GenerateCalls == {k \in 1..Len(log) : log[k].ev = "generate"}

\* C6: the generation service is called at most once per request, and only
\* after the conflict gate, the resolution of every available ingredient, the
\* minimum-count gate and the coverage gate have passed, in that order; a
\* request a gate rejected makes no such call.
C6_SynthesisOnceAfterGates ==
  /\ Cardinality(GenerateCalls) <= 1
  /\ \A g \in GenerateCalls :
       /\ g = Len(log)
       /\ \E a, b, c \in 1..Len(log) :
            /\ a < b /\ b < c /\ c < g
            /\ log[a].ev = "conflict_gate"
            /\ log[b].ev = "count_gate"
            /\ log[c].ev = "coverage_gate"
            /\ \A j \in 1..Len(log) : log[j].ev = "classify" => a < j /\ j < b
       /\ SharedCanonical = {}
       /\ ResolutionComplete
       /\ Len(resolved) >= 3
       /\ HasCoreIngredient
  /\ outcome.error \in {"db", "conflict", "resolution", "min_count", "coverage"} =>
       GenerateCalls = {}

\* C6 witness: a finished request that called the generation service, after
\* a classification call.
C6_Witness ==
  /\ pc = "done"
  /\ Cardinality(GenerateCalls) = 1
  /\ HasEvent("classify")
  /\ outcome.status = "ok"

\* the reply, fences stripped, is a JSON list whose entries all have the
\* required fields
ReplyIsRecipeList(text) ==
  LET d == json_loads(StripChars(StripChars(Strip(text), FenceJsonChars), FenceChars))
  IN /\ d.kind = "list"
     /\ \A k \in 1..Len(d.items) : RequiredFields \subseteq Fields(d.items[k])

\* C7: when the generation call fails, or its reply is not a well-formed JSON
\* list, or an entry lacks a required field, generate_recipe fails with an
\* error and returns no recipe.
C7_BadReplyFailsWholeBatch ==
  (/\ pc = "done"
   /\ HasEvent("generate")
   /\ content = SynthesisFailure \/ ~ReplyIsRecipeList(content)) =>
    /\ outcome.status = "error"
    /\ outcome.recipes = <<>>

\* C8: for a request generate_recipe was called with, while the database
\* answers: before any gate is evaluated and before any call of the external
\* service, the collection holds the request's liked and excluded lists, as
\* received, in the one document of its user_id; they stay there when the
\* request is rejected by a gate or fails in synthesis.
C8_PreferencesSavedFirst ==
  /\ ( \/ pc \in {"normalize", "conflict_gate", "resolve", "coverage_gate", "synthesize"}
       \/ pc = "done" /\ outcome.error \notin {"db", "validation"} ) =>
       /\ \E k \in 1..Len(collection) :
            collection[k] = Doc(received.user_id, received.liked_ingredients,
                                received.excluded_ingredients)
       /\ Cardinality({k \in 1..Len(collection) :
                         collection[k].user_id = received.user_id}) = 1
       /\ Len(log) >= 3
       /\ log[1].ev = "ping"
       /\ log[2].ev = "find_one"
       /\ log[3].ev \in {"update_one", "insert_one"}
  /\ \A k \in 1..Len(log) :
       log[k].ev \in {"conflict_gate", "classify", "count_gate", "coverage_gate", "generate"}
         => k > 3

\* C8 witness: a request of a user whose document existed, with a liked
\* entry that normalization changes, failed in synthesis; the document holds
\* the lists as received.
C8_Witness ==
  /\ pc = "done"
  /\ outcome.error = "synthesis"
  /\ existing_preference # NoDoc
  /\ received.liked_ingredients = <<W_Eggs>>
  /\ collection = <<Doc("u1", <<W_Eggs>>, received.excluded_ingredients)>>

NotCalled(r) == ~r.called

WasCalled(r) == r.called

IngredientsOf(rs) == [k \in 1..Len(rs) |-> rs[k].ingredient]

\* the valid ingredients the dataset lookup decided, and those the classifier decided
DecidedByDataset == IngredientsOf(SelectSeq(resolved, NotCalled))

DecidedByClassifier == IngredientsOf(SelectSeq(resolved, WasCalled))

\* t is s without its leading and trailing whitespace
IsTrimOf(t, s) ==
  /\ t = <<>> \/ (t[1] \notin Whitespace /\ t[Len(t)] \notin Whitespace)
  /\ \E i \in 1..(Len(s) + 1) :
       /\ i + Len(t) - 1 <= Len(s)
       /\ t = SubSeq(s, i, i + Len(t) - 1)
       /\ \A j \in 1..Len(s) : (j < i \/ j > i + Len(t) - 1) => s[j] \in Whitespace

\* C9 as stated: every recipe of a returned batch carries the same debug
\* record: the valid ingredients the dataset decided, those the classifier
\* decided, and the reply text of the generation call unchanged.
C9_DebugCarriesReplyUnchanged ==
  (pc = "done" /\ outcome.status = "ok") =>
    \A k \in 1..Len(outcome.recipes) :
       outcome.recipes[k].debug_info =
         DebugInfo(DecidedByDataset, DecidedByClassifier, content)

\* C9 (amended): every recipe of a returned batch carries the same debug
\* record: the valid ingredients the dataset decided, those the classifier
\* decided (each occurrence in exactly one list), and the reply text of the
\* generation call with its leading and trailing whitespace removed.
C9_DebugRecordShared ==
  (pc = "done" /\ outcome.status = "ok") =>
    /\ \A k \in 1..Len(outcome.recipes) :
         /\ outcome.recipes[k].debug_info = outcome.recipes[1].debug_info
         /\ outcome.recipes[k].debug_info.matched_with_database = DecidedByDataset
         /\ outcome.recipes[k].debug_info.matched_via_llm = DecidedByClassifier
         /\ IsTrimOf(outcome.recipes[k].debug_info.raw_llm_response, content)
    /\ Len(DecidedByDataset) + Len(DecidedByClassifier) = Len(valid_ingredients)
    /\ IngredientsOf(resolved) = valid_ingredients

\* C9 witness: a batch of two recipes from a reply wrapped in whitespace,
\* with ingredients decided by the dataset and by the classifier.
C9_Witness ==
  /\ pc = "done"
  /\ outcome.status = "ok"
  /\ Len(outcome.recipes) = 2
  /\ outcome.recipes[2].debug_info.matched_with_database # <<>>
  /\ outcome.recipes[2].debug_info.matched_via_llm # <<>>
  /\ outcome.recipes[2].debug_info.raw_llm_response # content

\* two strings are the same but for letter case
SameIgnoringCase(a, b) == Upper(a) = Upper(b)

\* the entries of a liked / excluded field of a body (none when the field is
\* absent or null)
EntriesOf(field) == IF field \in {Omitted, JsonNull} THEN {} ELSE ToSet(field)

\* the liked and excluded entries of a body that match no available entry,
\* ignoring case
UnmatchedOf(body) ==
  {e \in EntriesOf(body.liked_ingredients) \cup EntriesOf(body.excluded_ingredients) :
     \A k \in 1..Len(body.available_ingredients) :
        ~SameIgnoringCase(e, body.available_ingredients[k])}

\* C11: a body whose liked or excluded list has an entry that matches no
\* available entry, ignoring case, is rejected at validation with an error
\* naming such an entry: generate_recipe is not called, no database operation
\* and no external call is made for it.  A body whose liked and excluded
\* entries (lists or absent fields) all match passes validation.
C11_UnavailablePreferenceRejected ==
  pc # "idle" =>
    /\ UnmatchedOf(payload) # {} =>
         /\ pc = "done"
         /\ outcome.status = "error"
         /\ outcome.error = "validation"
         /\ outcome.names # {}
         /\ outcome.names \subseteq UnmatchedOf(payload)
         /\ received = NoRequest
         /\ log = <<>>
    /\ ( /\ UnmatchedOf(payload) = {}
         /\ JsonNull \notin {payload.liked_ingredients, payload.excluded_ingredients} ) =>
         /\ outcome.error # "validation"
         /\ received.liked_ingredients \in {payload.liked_ingredients, NoneValue}
         /\ received.user_id = payload.user_id

\* C11 witness: "tofu" is liked but not available, and the request was
\* rejected naming it.
C11_Witness ==
  /\ pc = "done"
  /\ payload.liked_ingredients = <<W_tofu>>
  /\ payload.available_ingredients = <<W_Eggs, W_salt>>
  /\ outcome = Outcome("error", "validation", {W_tofu}, <<>>)

\* C11, the other side: "Eggs" is liked, "eggs" is available, and the request
\* reached generate_recipe.
C11_WitnessPass ==
  /\ pc = "ping"
  /\ payload.liked_ingredients = <<W_Eggs>>
  /\ payload.available_ingredients = <<W_eggs>>
  /\ received.liked_ingredients = <<W_Eggs>>

\* the resolution loop is over and the list goes to the gates and the prompt
AtOrPastCountGate ==
  \/ pc = "resolve" /\ ResolutionComplete
  \/ pc \in {"coverage_gate", "synthesize"}
  \/ pc = "done" /\ outcome.error \in {"min_count", "coverage", "synthesis", "parse", "entry", ""}
                 /\ outcome.status # "pending" /\ ResolutionComplete

\* C12: the valid ingredients that reach the minimum-count gate and the
\* prompt hold each canonical ingredient at most once, so raw tokens with
\* the same canonical form count once towards the minimum of 3: a request
\* past the count gate has at least 3 distinct valid ingredients.
C12_ValidIngredientsDistinct ==
  /\ AtOrPastCountGate =>
       Cardinality(ToSet(valid_ingredients)) = Len(valid_ingredients)
  /\ HasEvent("count_gate") => Cardinality(ToSet(valid_ingredients)) >= 3

\* the whitespace characters of the strings
WhitespaceChars == {" ", TAB, "\n"}

IsNotWhitespaceChar(c) == c \notin WhitespaceChars

\* two strings differ at most in letter case and in whitespace
SameButCaseAndWhitespace(a, b) ==
  Upper(SelectSeq(a, IsNotWhitespaceChar)) = Upper(SelectSeq(b, IsNotWhitespaceChar))

\* C13: two raw strings that differ only in letter case and in whitespace
\* (leading, trailing or internal; spaces or other whitespace characters)
\* have the same canonical ingredient.
C13_CaseAndWhitespaceInsensitive ==
  \A i, j \in 1..Len(raw) :
     SameButCaseAndWhitespace(raw[i], raw[j]) => canonical[i] = canonical[j]

\* C18: the canonical form normalize_ingredient produces for a name of the
\* ingredients file is found by get_ingredient_category: the lookup hits and
\* returns the category the file gives that name, so no ingredient of the
\* file needs the classifier.
C18_DatasetNamesFound ==
  \A i \in 1..Len(looked_up) :
     /\ looked_up[i].category # PyNone
     /\ \E k \in 1..Len(csv) :
           /\ csv[k].Ingredient = looked_up[i].name
           /\ looked_up[i].category.s = Lower(RemoveSpaces(csv[k].Category))
     /\ ~NeedsClassifier(looked_up[i].name)

\* the body leaves out liked_ingredients or excluded_ingredients, or gives null
LacksPreference(body) ==
  \/ body.liked_ingredients \in {Omitted, JsonNull}
  \/ body.excluded_ingredients \in {Omitted, JsonNull}

\* C16: a body without liked_ingredients and/or excluded_ingredients (field
\* absent or null) is handled as if the field were the empty list: the
\* validated request holds [] there, and generate_recipe runs its pipeline
\* with it instead of failing because of the missing field.
C16_MissingPreferenceIsEmptyList ==
  (pc # "idle" /\ LacksPreference(payload)) =>
    /\ outcome.error # "type"
    /\ UnmatchedOf(payload) = {} =>
         /\ outcome.error # "validation"
         /\ payload.liked_ingredients \in {Omitted, JsonNull}
              => received.liked_ingredients = <<>>
         /\ payload.excluded_ingredients \in {Omitted, JsonNull}
              => received.excluded_ingredients = <<>>

\* the lists a document of the collection holds
ListsOf(doc) == <<doc.liked_ingredients, doc.excluded_ingredients>>

\* C14: after any interleaving of save_preference calls for the same
\* user_id, the collection holds at most one document of that user, and it
\* carries the lists of one of the calls (or those it held before them).
C14_OneRecordPerUser ==
  \A u \in Users :
     /\ Cardinality(DocsOf(collection, u)) <= 1
     /\ \A k \in DocsOf(collection, u) :
          ListsOf(collection[k]) \in SavedLists \cup {<<<<W_salt>>, <<>>>>}

\* C15: with the database reachable and no record of the user, GET
\* /get-preference/ and DELETE /delete-preference/ answer 404; 500 is
\* answered only when a database operation failed.
C15_MissingRecordIs404 ==
  \A h \in Handlers :
     (handlers[h].pc = "done" /\ handlers[h].op \in {"get", "delete"}) =>
       /\ handlers[h].returned.kind \in {"none", "not_found"} => handlers[h].status = 404
       /\ handlers[h].status = 500 => handlers[h].returned.kind \in {"raised", "pending"}

\* C17: while the calls of save, get and delete do not overlap: the
\* collection holds for each user exactly the lists last saved and not
\* deleted since (one document, or none); get returns them, or None when
\* there are none; delete reports success exactly when a record existed,
\* and not-found, changing nothing, otherwise; a call for one user leaves
\* the record of the other as it was.
C17_SequentialStoreOperations ==
  ~overlapped =>
    /\ \A u \in Users :
         /\ Cardinality(DocsOf(collection, u)) <= 1
         /\ find_one(collection, u) = expected[u]
    /\ \A h \in Handlers :
         handlers[h].pc = "done" =>
           /\ handlers[h].op = "get" =>
                /\ handlers[h].returned.kind = "document" =>
                     /\ handlers[h].expect # NoDoc
                     /\ handlers[h].returned.doc = handlers[h].expect
                /\ handlers[h].returned.kind = "none" => handlers[h].expect = NoDoc
                /\ handlers[h].returned.kind \in {"document", "none", "raised", "pending"}
           /\ handlers[h].op = "delete" =>
                /\ handlers[h].returned.kind = "deleted" => handlers[h].expect # NoDoc
                /\ handlers[h].returned.kind = "not_found" => handlers[h].expect = NoDoc
                /\ handlers[h].returned.kind \in {"deleted", "not_found", "raised", "pending"}

\* C17 witness: a user without a record was saved, then deleted, then
\* read: the delete reported success and the get returned None.
C17_Witness ==
  /\ ~overlapped
  /\ ops = 3
  /\ handlers["h1"].op = "get" /\ handlers["h1"].user_id = "u2"
  /\ handlers["h1"].returned.kind = "none"
  /\ handlers["h2"].op = "delete" /\ handlers["h2"].user_id = "u2"
  /\ handlers["h2"].returned.kind = "deleted"

\* C17, another case: a second save replaced the lists of the first and a
\* get returned those of the second.
C17_WitnessUpdate ==
  /\ ~overlapped
  /\ ops = 3
  /\ collection = <<Doc("u1", <<W_Eggs>>, <<>>)>>
  /\ \E h \in Handlers :
        /\ handlers[h].op = "get"
        /\ handlers[h].returned = Returned("document", Doc("u1", <<W_Eggs>>, <<>>))
        /\ handlers[h].status = 200

\* the pings of lifespan: failures, then at most one success, which is the last
StartupPingsWellFormed ==
  /\ Len(ping_results) <= 3
  /\ \A k \in 1..(Len(ping_results) - 1) : ~ping_results[k]

\* C19: lifespan pings at most 3 times; it serves as soon as a ping
\* succeeded and pings no more; after 3 failed pings it raises and the
\* application never serves; no endpoint call runs unless it serves; the
\* retry loop ends.
C19_StartupRetries ==
  /\ [](/\ StartupPingsWellFormed
        /\ lifespan_pc = "serving" =>
             Len(ping_results) >= 1 /\ ping_results[Len(ping_results)]
        /\ (Len(ping_results) >= 1 /\ ping_results[Len(ping_results)]) =>
             lifespan_pc = "serving"
        /\ lifespan_pc = "failed" <=> ping_results = <<FALSE, FALSE, FALSE>>
        /\ lifespan_pc # "serving" => ops = 0)
  /\ <>(lifespan_pc \in {"serving", "failed"})
  /\ [][(lifespan_pc \in {"serving", "failed"}) =>
          (lifespan_pc' = lifespan_pc /\ ping_results' = ping_results)]_vars

\* C19 witness: two pings failed, the third succeeded, and a call is served.
C19_Witness ==
  /\ lifespan_pc = "serving"
  /\ ping_results = <<FALSE, FALSE, TRUE>>
  /\ ops = 1

\* C19, the other end: three pings failed and the application does not serve.
C19_WitnessFailed ==
  /\ lifespan_pc = "failed"
  /\ retries = 0
  /\ Len(ping_results) = 3

\* C10: a generate request that succeeds (the gates pass, the reply parses
\* as a list of complete recipes) returns at least one recipe, and
\* every recipe has a title, ingredients, instructions, an estimated cooking
\* time and a difficulty level.
C10_SuccessReturnsRecipes ==
  (pc = "done" /\ outcome.status = "ok" /\ ReplyIsRecipeList(content)) =>
    /\ Len(outcome.recipes) >= 1
    /\ \A k \in 1..Len(outcome.recipes) : RequiredFields \subseteq outcome.recipes[k].fields

=============================================================================
